---- MODULE Spec2Model ----
(***************************************************************************)
(* Model of the PCM playback engine of src/exp/textinput/textinput_js.go   *)
(* (package readerdriver, lines 206-721): one playerImpl over one source,  *)
(* its fill loop goroutine, the goroutines spawned by Play(), callers of   *)
(* Close(), and the stream write callback of the context.                  *)
(*                                                                         *)
(* p.cond.L is the variable locked.  A step that locks and unlocks without  *)
(* giving the lock up in between is one action guarded by ~locked.  Only   *)
(* playImpl keeps the lock across steps (it reads the source while holding *)
(* it): the holder is the goroutine at "reading".  c.m is only ever held   *)
(* inside addPlayer, removePlayer and the snapshot of the callback, each   *)
(* one action of Spec.  LockSpec is the same program with the Lock of c.m  *)
(* as a step of its own, cm naming the holder.  Goroutines of Play and     *)
(* callers of Close have no identity: the state holds the bag of their     *)
(* positions.                                                              *)
(***************************************************************************)
EXTENDS Integers, Sequences, FiniteSets, Bags, TLC

\* ---------------------------------------------------------------- bounds
MaxBuf == 2            \* value of context.maxBufferSize() in the model
LoopBufLen == 2        \* length of the read buffer of loop() (4096 in the code)
MaxSrcLen == 3         \* longest source, in bytes
NumPlayGoroutines == 1 \* goroutines of Play() that can be in flight at once
NumClosers == 1        \* callers that can be inside Close() at once
FillSamples == 1       \* float32 samples of one sub-chunk (64 in the code)
MaxAddBufLen == 3      \* longest p.buf given to addBuffer on its own
MaxDstLen == 2         \* longest destination given to addBuffer on its own
MaxSessions == 3       \* calls of newSession() in one behaviour
MaxCoord == 2          \* x, y of Start are taken from 1..MaxCoord

\* ------------------------------------------------------------- constants
float32Size == 4       \* the /4 of the callback: bytes per float32
bytesToFill == FillSamples * float32Size \* C.size_t bytesToFill

playerPaused == "Paused"
playerPlay == "Play"
playerClosed == "Closed"
PlayerStates == {playerPaused, playerPlay, playerClosed}

nil == "nil"
EOF == "EOF"
ioErr == "ioErr"
none == "none"          \* no Close() has returned yet; nobody holds c.m

undefined == << >>     \* js.Undefined()
nilSession == 0        \* t.session == nil; sessions are numbered from 1
thePlayer == "p"
Volumes == {1, 2}      \* p.volume in halves: 0.5 and 1.0
\* requestedBytes of the callback: less than, equal to and more than one
\* sub-chunk.
RequestedBytes == {bytesToFill \div 2, bytesToFill, bytesToFill + bytesToFill \div 2}

Min(a, b) == IF a < b THEN a ELSE b

maxBufferSize == MaxBuf

VARIABLES
    state,        \* p.state
    buf,          \* p.buf, a sequence of bytes
    err,          \* p.err
    volume,       \* p.volume, in halves
    hasLoop,      \* p.hasLoop
    players,      \* c.players
    locked,       \* p.cond.L is held across steps (by playImpl)
    bitDepthInBytes, \* c.bitDepthInBytes
    srcLen, srcKind, srcPos, \* the source: length, how it ends, bytes read
    plays,        \* bag of the goroutines spawned by Play(): [pc, avail], avail
                  \* the bytes the source had when playImpl began on an empty
                  \* buffer (else -1)
    loopPc, loopData, loopErr, \* position of loop() and the result of its Read
    closes,       \* bag of the callers inside Close(): [pc, errAtStart]
    closeFirst, closeLast, \* what the first and the latest Close() returned
    resetDone,    \* Reset() returned and neither Play() nor Close() began since
    mixPc, mixN, mixPlayers, buf32, \* the stream write callback's locals
    mixReq, mixWritten, \* requestedBytes and the bytes given to pa_stream_write
    cm,           \* c.m: the thread that holds it across steps, or none
    textareaElement, \* t.textareaElement is truthy (init found a document)
    session,      \* t.session: nilSession or the number of a session
    sessions,     \* how many sessions newSession() has made
    ended,        \* the sessions on which end() has been called
    textinputReady, \* window._ebitengine_textinput_ready is truthy
    textinputXY,  \* window._ebitengine_textinput_x, _y: undefined or <<x, y>>
    activeElement, \* document.activeElement is the textarea
    textareaPos   \* style.left, style.top of the textarea

vars == <<state, buf, err, volume, hasLoop, players, locked, bitDepthInBytes,
          srcLen, srcKind, srcPos, plays, loopPc, loopData, loopErr,
          closes, closeFirst, closeLast, resetDone,
          mixPc, mixN, mixPlayers, buf32, mixReq, mixWritten, cm,
          textareaElement, session, sessions, ended, textinputReady,
          textinputXY, activeElement, textareaPos>>

playerVars == <<state, buf, err, volume, hasLoop>>
srcVars == <<srcLen, srcKind, srcPos>>
fmtVars == <<bitDepthInBytes, srcLen, srcKind>>
playVars == <<plays>>
loopVars == <<loopPc, loopData, loopErr>>
closeVars == <<closes, closeFirst, closeLast>>
mixVars == <<mixPc, mixN, mixPlayers, buf32, mixReq, mixWritten>>
textVars == <<textareaElement, session, sessions, ended, textinputReady,
              textinputXY, activeElement, textareaPos>>
audioVars == <<state, buf, err, volume, hasLoop, players, locked,
               bitDepthInBytes, srcLen, srcKind, srcPos, plays, loopPc,
               loopData, loopErr, closes, closeFirst, closeLast, resetDone,
               mixPc, mixN, mixPlayers, buf32, mixReq, mixWritten, cm>>

\* ------------------------------------------------------------ the source
\* Byte at position i (1-based) of the source.
SrcByte(i) == (i * 85) % 256

SrcBytes(from, n) == [k \in 1..n |-> SrcByte(from + k)]

\* Results io.Reader.Read may give for a buffer of k bytes: at the end 0
\* bytes and the terminal condition; before it 1..k bytes, the last of which
\* may come together with the terminal condition.
ReadResults(k) ==
    LET rem == srcLen - srcPos IN
    IF rem = 0
    THEN {[n |-> 0, e |-> srcKind]}
    ELSE {[n |-> n, e |-> nil] : n \in 1..Min(k, rem)}
         \cup (IF rem <= k THEN {[n |-> rem, e |-> srcKind]} ELSE {})

\* --------------------------------------------------------- pure helpers
\* A Signal that wakes nobody.
Signal_NoWakeUp(pc) == pc

\* sync.Cond.Signal: wakes loop() if it is blocked in cond.Wait.
Signal(pc) == IF pc = "blocked" THEN "wait" ELSE pc

\* playImpl's guard without its test of the state (lines 498-500).
playImplProceeds_NoStateGuard(s, e) == e = nil

\* playImpl's guard (lines 495-500): TRUE when Play does something.
playImplProceeds(s, e) == e = nil /\ s = playerPaused

\* playImpl's fill loop condition (line 503).
playFillMore(b) == Len(b) < maxBufferSize

\* pauseImpl without its test of the state (lines 540-542).
pauseImplState_NoStateGuard(s) == playerPaused

\* pauseImpl (lines 539-545): the new state.
pauseImplState(s) == IF s # playerPlay THEN s ELSE playerPaused

\* resetImpl without its guard on playerClosed (line 558).
resetImplState_NoClosedGuard(s) == playerPaused

\* resetImpl (lines 557-564): the new state and buffer.
resetImplState(s) == IF s = playerClosed THEN s ELSE playerPaused
resetImplBuf(s, b) == IF s = playerClosed THEN b ELSE << >>

\* closeImpl after it re-locks (lines 622-628): new state, buffer, result.
closeImplState(s) == playerClosed
closeImplBuf(s, b) == IF s = playerClosed THEN b ELSE << >>
closeImplRet(s, e) == IF s = playerClosed THEN nil ELSE e

\* shouldWait (lines 664-677).
shouldWait(s, b) ==
    CASE s = playerPaused -> TRUE
      [] s = playerPlay -> Len(b) >= maxBufferSize
      [] s = playerClosed -> FALSE

\* addBuffer's sample conversion (lines 646-654), as a numerator over 2^15.
uint8Sub(v8) == (v8 - 128) % 256
int16Of(lo, hi) ==
    LET u == lo + 256 * hi IN IF u >= 32768 THEN u - 65536 ELSE u
sampleOf(b, i, d) ==
    IF d = 1 THEN uint8Sub(b[i]) * 256 ELSE int16Of(b[2 * i - 1], b[2 * i])

\* addBuffer (lines 639-657): samples consumed, remaining bytes, new mix.
addBufferN(b, d, dst) == Min(Len(b) \div d, Len(dst))
addBufferRest(b, d, dst) == SubSeq(b, addBufferN(b, d, dst) * d + 1, Len(b))
\* addBuffer storing each sample instead of adding it (line 655 with = for +=).
addBufferMix_Overwrites(b, d, vol, dst) ==
    [i \in 1..Len(dst) |->
        IF i <= addBufferN(b, d, dst) THEN sampleOf(b, i, d) * vol
        ELSE dst[i]]
addBufferMix(b, d, vol, dst) ==
    [i \in 1..Len(dst) |->
        IF i <= addBufferN(b, d, dst) THEN dst[i] + sampleOf(b, i, d) * vol
        ELSE dst[i]]

\* addBuffer without its test of the state (lines 635-637).
addBuffer_NoStateGuard(s, b, d, vol, dst) ==
    [n |-> addBufferN(b, d, dst), buf |-> addBufferRest(b, d, dst),
     dst |-> addBufferMix(b, d, vol, dst)]

\* addBuffer (lines 631-662): the value returned, the new p.buf and the new
\* contents of the destination.
addBuffer(s, b, d, vol, dst) ==
    IF s # playerPlay
    THEN [n |-> 0, buf |-> b, dst |-> dst]
    ELSE [n |-> addBufferN(b, d, dst), buf |-> addBufferRest(b, d, dst),
          dst |-> addBufferMix(b, d, vol, dst)]

Zeros(n) == [i \in 1..n |-> 0]

\* theTextInput after init() (lines 29-139): no session, nothing asked of the
\* window, the textarea not focused and at left = 0, top = 0.
TextInit ==
    /\ session = nilSession
    /\ sessions = 0
    /\ ended = {}
    /\ textinputReady = FALSE
    /\ textinputXY = undefined
    /\ activeElement = FALSE
    /\ textareaPos = <<0, 0>>

\* ------------------------------------------------------------------ Init
Init ==
    /\ state = playerPaused
    /\ buf = << >>
    /\ err = nil
    /\ volume = 2
    /\ hasLoop = FALSE
    /\ players = {}
    /\ locked = FALSE
    /\ bitDepthInBytes \in {1, 2}
    /\ srcLen \in 0..MaxSrcLen
    /\ srcKind \in {EOF, ioErr}
    /\ srcPos = 0
    /\ plays = EmptyBag
    /\ loopPc = "none"
    /\ loopData = << >>
    /\ loopErr = nil
    /\ closes = EmptyBag
    /\ closeFirst = none
    /\ closeLast = none
    /\ resetDone = FALSE
    /\ mixPc = "idle"
    /\ mixN = 0
    /\ mixPlayers = {}
    /\ buf32 = << >>
    /\ mixReq = 0
    /\ mixWritten = 0
    /\ cm = none
    /\ textareaElement = TRUE
    /\ TextInit

\* ------------------------------------------------------- Play, playImpl
\* A goroutine or caller enters the bag, moves from g to h, leaves the bag.
Enter(bag, h) == bag (+) SetToBag({h})
Leave(bag, g) == bag (-) SetToBag({g})
Move(bag, g, h) == Enter(Leave(bag, g), h)

PlayAt(pc, avail) == [pc |-> pc, avail |-> avail]

\* Play (lines 483-492) returns once its goroutine holds the lock; the
\* goroutine then runs playImpl's guard (lines 495-500) and, when the buffer
\* is already full, goes straight to line 515.
PlayStart ==
    /\ BagCardinality(plays) < NumPlayGoroutines
    /\ ~locked
    /\ resetDone' = FALSE
    /\ IF ~playImplProceeds(state, err)
       THEN UNCHANGED <<state, locked, plays>>
       ELSE IF playFillMore(buf)
            THEN /\ locked' = TRUE
                 /\ plays' = Enter(plays, PlayAt("reading",
                        IF Len(buf) = 0 THEN srcLen - srcPos ELSE -1))
                 /\ UNCHANGED state
            ELSE /\ state' = playerPlay
                 /\ plays' = Enter(plays, PlayAt("add", -1))
                 /\ UNCHANGED locked
    /\ UNCHANGED <<textVars, cm, buf, err, volume, hasLoop, players, fmtVars, srcPos,
                   loopVars, closeVars, mixVars>>

\* One p.src.Read of playImpl's loop returns (lines 503-513), with the lock
\* held; on an error setErrorImpl records it and closeImpl unlocks (line
\* 618); once the buffer is full or the source ended, lines 515-517.
PlayReadReturn(g) ==
    /\ BagIn(g, plays)
    /\ g.pc = "reading"
    /\ \E r \in ReadResults(maxBufferSize) :
        /\ srcPos' = srcPos + r.n
        /\ IF r.e = ioErr
           THEN /\ err' = r.e
                /\ locked' = FALSE
                /\ plays' = Move(plays, g, PlayAt("e_remove", -1))
                /\ UNCHANGED <<state, buf>>
           ELSE LET b == buf \o SrcBytes(srcPos, r.n) IN
                /\ buf' = b
                /\ err' = err
                /\ IF r.e = EOF \/ ~playFillMore(b)
                   THEN /\ state' = playerPlay
                        /\ locked' = FALSE
                        /\ plays' = Move(plays, g, PlayAt("add", -1))
                   ELSE UNCHANGED <<state, locked, plays>>
    /\ UNCHANGED <<textVars, cm, volume, hasLoop, players, fmtVars, loopVars, closeVars,
                   resetDone, mixVars>>

\* context.addPlayer (lines 375-383), called by playImpl at line 518.
PlayAddPlayer(g) ==
    /\ BagIn(g, plays)
    /\ g.pc = "add"
    /\ players' = players \cup {thePlayer}
    /\ plays' = Move(plays, g, PlayAt("relock", -1))
    /\ UNCHANGED <<textVars, cm, playerVars, locked, fmtVars, srcPos, loopVars, closeVars,
                   resetDone, mixVars>>

\* playImpl re-locks, signals and starts loop() once (lines 519-526).
PlayRelock(g) ==
    /\ BagIn(g, plays)
    /\ g.pc = "relock"
    /\ ~locked
    /\ loopPc' = IF hasLoop THEN Signal(loopPc) ELSE "wait"
    /\ hasLoop' = TRUE
    /\ plays' = Leave(plays, g)
    /\ UNCHANGED <<textVars, cm, state, buf, err, volume, players, locked, fmtVars, srcPos,
                   loopData, loopErr, closeVars, resetDone, mixVars>>

\* closeImpl called by setErrorImpl inside playImpl: removePlayer (line 619).
PlayErrRemove(g) ==
    /\ BagIn(g, plays)
    /\ g.pc = "e_remove"
    /\ players' = players \ {thePlayer}
    /\ plays' = Move(plays, g, PlayAt("e_relock", -1))
    /\ UNCHANGED <<textVars, cm, playerVars, locked, fmtVars, srcPos, loopVars, closeVars,
                   resetDone, mixVars>>

\* ... and the rest of closeImpl (lines 620-628), then playImpl returns.
PlayErrRelock(g) ==
    /\ BagIn(g, plays)
    /\ g.pc = "e_relock"
    /\ ~locked
    /\ state' = closeImplState(state)
    /\ buf' = closeImplBuf(state, buf)
    /\ loopPc' = IF state = playerClosed THEN loopPc ELSE Signal(loopPc)
    /\ plays' = Leave(plays, g)
    /\ UNCHANGED <<textVars, cm, err, volume, hasLoop, players, locked, fmtVars, srcPos,
                   loopData, loopErr, closeVars, resetDone, mixVars>>

\* ------------------------------------------- Pause, Reset, SetVolume
\* Pause and pauseImpl (lines 533-545).
Pause ==
    /\ ~locked
    /\ state' = pauseImplState(state)
    /\ loopPc' = IF state = playerPlay THEN Signal(loopPc) ELSE loopPc
    /\ UNCHANGED <<textVars, cm, buf, err, volume, hasLoop, players, locked, fmtVars,
                   srcPos, playVars, loopData, loopErr, closeVars, resetDone,
                   mixVars>>

\* Reset and resetImpl (lines 551-564).
Reset ==
    /\ ~locked
    /\ state' = resetImplState(state)
    /\ buf' = resetImplBuf(state, buf)
    /\ loopPc' = IF state = playerClosed THEN loopPc ELSE Signal(loopPc)
    /\ resetDone' = (state # playerClosed)
    /\ UNCHANGED <<textVars, cm, err, volume, hasLoop, players, locked, fmtVars, srcPos,
                   playVars, loopData, loopErr, closeVars, mixVars>>

\* SetVolume (lines 590-594).
SetVolume(v) ==
    /\ ~locked
    /\ volume' = v
    /\ UNCHANGED <<textVars, cm, state, buf, err, hasLoop, players, locked, fmtVars, srcPos,
                   playVars, loopVars, closeVars, resetDone, mixVars>>

\* ------------------------------------------------------ Close, closeImpl
CloseAt(pc, errAtStart) == [pc |-> pc, errAtStart |-> errAtStart]

\* Close locks and closeImpl unlocks at once (lines 612-618).
CloseStart ==
    /\ BagCardinality(closes) < NumClosers
    /\ ~locked
    /\ closes' = Enter(closes, CloseAt("remove", err))
    /\ resetDone' = FALSE
    /\ UNCHANGED <<textVars, cm, playerVars, players, locked, fmtVars, srcPos, playVars,
                   loopVars, closeFirst, closeLast, mixVars>>

\* context.removePlayer (lines 385-389), called at line 619.
CloseRemove(c) ==
    /\ BagIn(c, closes)
    /\ c.pc = "remove"
    /\ players' = players \ {thePlayer}
    /\ closes' = Move(closes, c, CloseAt("relock", c.errAtStart))
    /\ UNCHANGED <<textVars, cm, playerVars, locked, fmtVars, srcPos, playVars, loopVars,
                   closeFirst, closeLast, resetDone, mixVars>>

\* closeImpl re-locks, closes and returns (lines 620-628); Close unlocks.
CloseRelock(c) ==
    /\ BagIn(c, closes)
    /\ c.pc = "relock"
    /\ ~locked
    /\ state' = closeImplState(state)
    /\ buf' = closeImplBuf(state, buf)
    /\ loopPc' = IF state = playerClosed THEN loopPc ELSE Signal(loopPc)
    /\ closeLast' = closeImplRet(state, err)
    /\ closeFirst' = IF closeFirst = none THEN closeImplRet(state, err)
                      ELSE closeFirst
    /\ closes' = Leave(closes, c)
    /\ resetDone' = FALSE
    /\ UNCHANGED <<textVars, cm, err, volume, hasLoop, players, locked, fmtVars, srcPos,
                   playVars, loopData, loopErr, mixVars>>

\* ------------------------------------------------------------ loop, wait
\* wait (lines 679-687): blocks in cond.Wait while shouldWait, else returns
\* whether the player is playing; loop returns when it is not (line 704).
LoopWait ==
    /\ loopPc = "wait"
    /\ ~locked
    /\ loopPc' = IF shouldWait(state, buf) THEN "blocked"
                 ELSE IF state = playerPlay THEN "read" ELSE "done"
    /\ UNCHANGED <<textVars, cm, playerVars, players, locked, fmtVars, srcPos, playVars,
                   loopData, loopErr, closeVars, resetDone, mixVars>>

\* p.src.Read of loop returns (line 707); the lock is not held.
LoopReadReturn ==
    /\ loopPc = "read"
    /\ \E r \in ReadResults(LoopBufLen) :
        /\ srcPos' = srcPos + r.n
        /\ loopErr' = r.e
        /\ loopData' = IF r.e = ioErr THEN << >> ELSE SrcBytes(srcPos, r.n)
        /\ loopPc' = IF r.e = ioErr THEN "seterr" ELSE "got"
    /\ UNCHANGED <<textVars, cm, playerVars, players, locked, fmtVars, playVars, closeVars,
                   resetDone, mixVars>>

\* loop appends what it read and resets at the end of the stream (lines
\* 713-718).
LoopAppend ==
    /\ loopPc = "got"
    /\ ~locked
    /\ LET b == buf \o loopData IN
       IF loopErr = EOF /\ Len(b) = 0
       THEN /\ state' = resetImplState(state)
            /\ buf' = resetImplBuf(state, b)
       ELSE /\ state' = state
            /\ buf' = b
    /\ loopPc' = "wait"
    /\ loopData' = << >>
    /\ loopErr' = nil
    /\ UNCHANGED <<textVars, cm, err, volume, hasLoop, players, locked, fmtVars, srcPos,
                   playVars, closeVars, resetDone, mixVars>>

\* setError and setErrorImpl record the error; closeImpl unlocks (lines
\* 689-697, 618).
LoopSetError ==
    /\ loopPc = "seterr"
    /\ ~locked
    /\ err' = loopErr
    /\ loopPc' = "e_remove"
    /\ UNCHANGED <<textVars, cm, state, buf, volume, hasLoop, players, locked, fmtVars,
                   srcPos, playVars, loopData, loopErr, closeVars, resetDone,
                   mixVars>>

\* closeImpl on the error path of loop: removePlayer (line 619).
LoopErrRemove ==
    /\ loopPc = "e_remove"
    /\ players' = players \ {thePlayer}
    /\ loopPc' = "e_relock"
    /\ UNCHANGED <<textVars, cm, playerVars, locked, fmtVars, srcPos, playVars, loopData,
                   loopErr, closeVars, resetDone, mixVars>>

\* ... and the rest of closeImpl (lines 620-628); loop returns (line 710).
LoopErrRelock ==
    /\ loopPc = "e_relock"
    /\ ~locked
    /\ state' = closeImplState(state)
    /\ buf' = closeImplBuf(state, buf)
    /\ loopPc' = "done"
    /\ loopErr' = nil
    /\ UNCHANGED <<textVars, cm, err, volume, hasLoop, players, locked, fmtVars, srcPos,
                   playVars, loopData, closeVars, resetDone, mixVars>>

\* ------------------------------- ebiten_readerdriver_streamWriteCallback
\* The native layer asks for requestedBytes (line 406) and the first
\* sub-chunk begins: snapshot of the registry and a zeroed mix buffer (lines
\* 414-428).
MixRequest(requestedBytes) ==
    /\ mixPc = "idle"
    /\ mixN' = requestedBytes
    /\ mixReq' = requestedBytes
    /\ mixWritten' = 0
    /\ mixPlayers' = players
    /\ buf32' = Zeros(bytesToFill \div float32Size)
    /\ mixPc' = IF players = {} THEN "write" ELSE "add"
    /\ UNCHANGED <<textVars, cm, playerVars, players, locked, fmtVars, srcPos, playVars,
                   loopVars, closeVars, resetDone>>

\* A later sub-chunk begins (lines 414-428).
MixSnapshot ==
    /\ mixPc = "snap"
    /\ mixPlayers' = players
    /\ buf32' = Zeros(bytesToFill \div float32Size)
    /\ mixPc' = IF players = {} THEN "write" ELSE "add"
    /\ UNCHANGED <<textVars, cm, playerVars, players, locked, fmtVars, srcPos, playVars,
                   loopVars, closeVars, resetDone, mixN, mixReq, mixWritten>>

\* p.addBuffer for the player of the snapshot (lines 429-431, 631-662).
MixAddBuffer ==
    /\ mixPc = "add"
    /\ ~locked
    /\ LET r == addBuffer(state, buf, bitDepthInBytes, volume, buf32) IN
        /\ buf32' = r.dst
        /\ buf' = r.buf
        /\ loopPc' = IF r.n > 0 THEN Signal(loopPc) ELSE loopPc
    /\ mixPc' = "write"
    /\ UNCHANGED <<textVars, cm, state, err, volume, hasLoop, players, locked, fmtVars,
                   srcPos, playVars, loopData, loopErr, closeVars, resetDone,
                   mixN, mixPlayers, mixReq, mixWritten>>

\* The sub-chunk is written and the loop of line 413 steps (lines 432-437);
\* when it ends the callback returns and its locals are gone.
MixWrite ==
    /\ mixPc = "write"
    /\ IF mixN - bytesToFill > 0
       THEN /\ mixN' = mixN - bytesToFill
            /\ mixWritten' = mixWritten + bytesToFill
            /\ mixPc' = "snap"
            /\ UNCHANGED <<mixPlayers, buf32, mixReq>>
       ELSE /\ mixN' = 0
            /\ mixWritten' = 0
            /\ mixReq' = 0
            /\ mixPc' = "idle"
            /\ mixPlayers' = {}
            /\ buf32' = << >>
    /\ UNCHANGED <<textVars, cm, playerVars, players, locked, fmtVars, srcPos, playVars,
                   loopVars, closeVars, resetDone>>

\* ------------------------------------------------------------------ Next
PlayPcs == {"reading", "add", "adding", "relock", "e_remove", "e_removing",
            "e_relock"}
ClosePcs == {"remove", "removing", "relock"}
PlayLocals == [pc : PlayPcs, avail : -1..MaxSrcLen]
CloseLocals == [pc : ClosePcs, errAtStart : {nil, ioErr}]

PlayStep(g) ==
    \/ PlayReadReturn(g)
    \/ PlayAddPlayer(g)
    \/ PlayRelock(g)
    \/ PlayErrRemove(g)
    \/ PlayErrRelock(g)

CloseStep(c) == CloseRemove(c) \/ CloseRelock(c)

LoopStep ==
    \/ LoopWait
    \/ LoopReadReturn
    \/ LoopAppend
    \/ LoopSetError
    \/ LoopErrRemove
    \/ LoopErrRelock

MixStep ==
    \/ \E requestedBytes \in RequestedBytes : MixRequest(requestedBytes)
    \/ MixSnapshot
    \/ MixAddBuffer
    \/ MixWrite

Next ==
    \/ PlayStart
    \/ \E g \in BagToSet(plays) : PlayReadReturn(g)
    \/ \E g \in BagToSet(plays) : PlayAddPlayer(g)
    \/ \E g \in BagToSet(plays) : PlayRelock(g)
    \/ \E g \in BagToSet(plays) : PlayErrRemove(g)
    \/ \E g \in BagToSet(plays) : PlayErrRelock(g)
    \/ Pause
    \/ Reset
    \/ \E v \in Volumes : SetVolume(v)
    \/ CloseStart
    \/ \E c \in BagToSet(closes) : CloseRemove(c)
    \/ \E c \in BagToSet(closes) : CloseRelock(c)
    \/ LoopStep
    \/ MixStep

Spec == Init /\ [][Next]_vars

PlaysAt(pc) == \E g \in BagToSet(plays) : g.pc = pc

TypeOK ==
    /\ state \in PlayerStates
    /\ err \in {nil, ioErr}
    /\ locked \in BOOLEAN
    /\ locked <=> PlaysAt("reading")
    /\ srcPos \in 0..srcLen
    /\ BagToSet(plays) \subseteq PlayLocals
    /\ BagToSet(closes) \subseteq CloseLocals

\* Fairness: the Go scheduler keeps running the goroutines that can run
\* (loop, the goroutines of Play, callers inside Close) and the native layer
\* keeps calling the write callback.  Callers need not call anything.
Fairness ==
    /\ WF_vars(LoopStep)
    /\ WF_vars(MixStep)
    /\ \A pc \in PlayPcs :
        WF_vars(\E g \in BagToSet(plays) : g.pc = pc /\ PlayStep(g))
    /\ \A pc \in ClosePcs :
        WF_vars(\E c \in BagToSet(closes) : c.pc = pc /\ CloseStep(c))

FairSpec == Spec /\ Fairness

\* ------------------------------------------------- addBuffer on its own
\* addBuffer as a function of what it is given: the callback is about to
\* call it (lines 429-431) for a player in any state, with any buffer of
\* FnBytes, format, volume and destination contents (what the players polled
\* before it have added).
FnBytes == {0, 127, 128, 255}
FnDstVals == {-7, 0, 7}
SeqsUpTo(S, n) == UNION {[1..k -> S] : k \in 0..n}

FnInit ==
    /\ state \in PlayerStates
    /\ buf \in SeqsUpTo(FnBytes, MaxAddBufLen)
    /\ err \in {nil, ioErr}
    /\ volume \in Volumes
    /\ hasLoop = TRUE
    /\ players = {thePlayer}
    /\ locked = FALSE
    /\ bitDepthInBytes \in {1, 2}
    /\ srcLen = 0
    /\ srcKind = EOF
    /\ srcPos = 0
    /\ plays = EmptyBag
    /\ loopPc = "blocked"
    /\ loopData = << >>
    /\ loopErr = nil
    /\ closes = EmptyBag
    /\ closeFirst = none
    /\ closeLast = none
    /\ resetDone = FALSE
    /\ mixPc = "add"
    /\ mixN = bytesToFill
    /\ mixPlayers = {thePlayer}
    /\ buf32 \in SeqsUpTo(FnDstVals, MaxDstLen)
    /\ mixReq = bytesToFill
    /\ mixWritten = 0
    /\ cm = none
    /\ textareaElement = TRUE
    /\ TextInit

FnNext == MixAddBuffer

FnSpec == FnInit /\ [][FnNext]_vars

\* ------------------------------------------- c.m taken in its own step
\* c.m after the Unlock that ends addPlayer, removePlayer (the defers of
\* lines 377 and 387) and the snapshot of the callback (line 419).
registryUnlock_Missing(holder) == holder
registryUnlock(holder) == none

\* c.m.Lock() of addPlayer (line 376), called by playImpl at line 518 after
\* it has unlocked p.cond.L at line 517.
PlayLockRegistry(g) ==
    /\ BagIn(g, plays)
    /\ g.pc = "add"
    /\ cm = none
    /\ cm' = "play"
    /\ plays' = Move(plays, g, PlayAt("adding", -1))
    /\ UNCHANGED <<textVars, playerVars, players, locked, fmtVars, srcPos, loopVars,
                   closeVars, resetDone, mixVars>>

\* The rest of addPlayer (lines 377-382).
PlayAddPlayerLocked(g) ==
    /\ BagIn(g, plays)
    /\ g.pc = "adding"
    /\ players' = players \cup {thePlayer}
    /\ cm' = registryUnlock(cm)
    /\ plays' = Move(plays, g, PlayAt("relock", -1))
    /\ UNCHANGED <<textVars, playerVars, locked, fmtVars, srcPos, loopVars, closeVars,
                   resetDone, mixVars>>

\* c.m.Lock() of removePlayer (line 386) on the error path of playImpl.
PlayErrLockRegistry(g) ==
    /\ BagIn(g, plays)
    /\ g.pc = "e_remove"
    /\ cm = none
    /\ cm' = "play"
    /\ plays' = Move(plays, g, PlayAt("e_removing", -1))
    /\ UNCHANGED <<textVars, playerVars, players, locked, fmtVars, srcPos, loopVars,
                   closeVars, resetDone, mixVars>>

\* The rest of removePlayer (lines 387-388).
PlayErrRemoveLocked(g) ==
    /\ BagIn(g, plays)
    /\ g.pc = "e_removing"
    /\ players' = players \ {thePlayer}
    /\ cm' = registryUnlock(cm)
    /\ plays' = Move(plays, g, PlayAt("e_relock", -1))
    /\ UNCHANGED <<textVars, playerVars, locked, fmtVars, srcPos, loopVars, closeVars,
                   resetDone, mixVars>>

\* c.m.Lock() of removePlayer (line 386), called by closeImpl at line 619
\* after it has unlocked p.cond.L at line 618.
CloseLockRegistry(c) ==
    /\ BagIn(c, closes)
    /\ c.pc = "remove"
    /\ cm = none
    /\ cm' = "close"
    /\ closes' = Move(closes, c, CloseAt("removing", c.errAtStart))
    /\ UNCHANGED <<textVars, playerVars, players, locked, fmtVars, srcPos, playVars,
                   loopVars, closeFirst, closeLast, resetDone, mixVars>>

\* The rest of removePlayer (lines 387-388).
CloseRemoveLocked(c) ==
    /\ BagIn(c, closes)
    /\ c.pc = "removing"
    /\ players' = players \ {thePlayer}
    /\ cm' = registryUnlock(cm)
    /\ closes' = Move(closes, c, CloseAt("relock", c.errAtStart))
    /\ UNCHANGED <<textVars, playerVars, locked, fmtVars, srcPos, playVars, loopVars,
                   closeFirst, closeLast, resetDone, mixVars>>

\* c.m.Lock() of removePlayer (line 386) on the error path of loop.
LoopErrLockRegistry ==
    /\ loopPc = "e_remove"
    /\ cm = none
    /\ cm' = "loop"
    /\ loopPc' = "e_removing"
    /\ UNCHANGED <<textVars, playerVars, players, locked, fmtVars, srcPos, playVars,
                   loopData, loopErr, closeVars, resetDone, mixVars>>

\* The rest of removePlayer (lines 387-388).
LoopErrRemoveLocked ==
    /\ loopPc = "e_removing"
    /\ players' = players \ {thePlayer}
    /\ cm' = registryUnlock(cm)
    /\ loopPc' = "e_relock"
    /\ UNCHANGED <<textVars, playerVars, locked, fmtVars, srcPos, playVars, loopData,
                   loopErr, closeVars, resetDone, mixVars>>

\* The native layer calls the callback with requestedBytes (lines 406-413).
MixBegin(requestedBytes) ==
    /\ mixPc = "idle"
    /\ mixN' = requestedBytes
    /\ mixReq' = requestedBytes
    /\ mixWritten' = 0
    /\ mixPc' = "snap"
    /\ UNCHANGED <<textVars, playerVars, players, locked, fmtVars, srcPos, playVars,
                   loopVars, closeVars, resetDone, mixPlayers, buf32, cm>>

\* c.m.Lock() of the callback (line 414).
MixLockRegistry ==
    /\ mixPc = "snap"
    /\ cm = none
    /\ cm' = "mix"
    /\ mixPc' = "snapping"
    /\ UNCHANGED <<textVars, playerVars, players, locked, fmtVars, srcPos, playVars,
                   loopVars, closeVars, resetDone, mixN, mixPlayers, buf32,
                   mixReq, mixWritten>>

\* The snapshot, c.m.Unlock() and the zeroed mix buffer (lines 415-428).
MixSnapshotLocked ==
    /\ mixPc = "snapping"
    /\ mixPlayers' = players
    /\ cm' = registryUnlock(cm)
    /\ buf32' = Zeros(bytesToFill \div float32Size)
    /\ mixPc' = IF players = {} THEN "write" ELSE "add"
    /\ UNCHANGED <<textVars, playerVars, players, locked, fmtVars, srcPos, playVars,
                   loopVars, closeVars, resetDone, mixN, mixReq, mixWritten>>

LockNext ==
    \/ PlayStart
    \/ \E g \in BagToSet(plays) : PlayReadReturn(g)
    \/ \E g \in BagToSet(plays) : PlayLockRegistry(g)
    \/ \E g \in BagToSet(plays) : PlayAddPlayerLocked(g)
    \/ \E g \in BagToSet(plays) : PlayRelock(g)
    \/ \E g \in BagToSet(plays) : PlayErrLockRegistry(g)
    \/ \E g \in BagToSet(plays) : PlayErrRemoveLocked(g)
    \/ \E g \in BagToSet(plays) : PlayErrRelock(g)
    \/ Pause
    \/ Reset
    \/ \E v \in Volumes : SetVolume(v)
    \/ CloseStart
    \/ \E c \in BagToSet(closes) : CloseLockRegistry(c)
    \/ \E c \in BagToSet(closes) : CloseRemoveLocked(c)
    \/ \E c \in BagToSet(closes) : CloseRelock(c)
    \/ LoopWait
    \/ LoopReadReturn
    \/ LoopAppend
    \/ LoopSetError
    \/ LoopErrLockRegistry
    \/ LoopErrRemoveLocked
    \/ LoopErrRelock
    \/ \E requestedBytes \in RequestedBytes : MixBegin(requestedBytes)
    \/ MixLockRegistry
    \/ MixSnapshotLocked
    \/ MixAddBuffer
    \/ MixWrite

LockSpec == Init /\ [][LockNext]_vars

\* ------------------------------------------ textInput (lines 36-204)
\* x, y given to Start.
Coords == (1..MaxCoord) \X (1..MaxCoord)

\* `if t.session != nil { t.session.end(); t.session = nil }` (lines 70-73,
\* 152-155, 198-201): the sessions on which end() has been called afterwards.
endSession(s, e) == IF s = nilSession THEN e ELSE e \cup {s}

\* Start (lines 141-177).  newSession() makes the session sessions + 1.
Start(xy) ==
    /\ sessions < MaxSessions
    /\ IF ~textareaElement
       THEN UNCHANGED <<session, sessions, ended, textinputReady,
                        textinputXY, textareaPos>>
       ELSE IF textinputReady
       THEN /\ session' = sessions + 1
            /\ sessions' = sessions + 1
            /\ textinputReady' = FALSE
            /\ UNCHANGED <<ended, textinputXY, textareaPos>>
       ELSE IF activeElement
       THEN /\ ended' = endSession(session, ended)
            /\ textareaPos' = xy
            /\ session' = sessions + 1
            /\ sessions' = sessions + 1
            /\ UNCHANGED <<textinputReady, textinputXY>>
       ELSE /\ ended' = endSession(session, ended)
            /\ session' = nilSession
            /\ textinputXY' = xy
            /\ UNCHANGED <<sessions, textinputReady, textareaPos>>
    /\ UNCHANGED <<audioVars, textareaElement, activeElement>>

\* The caller calls the end function Start returned for session s (s.end,
\* lines 149 and 170).
CallerEnd(s) ==
    /\ s \in 1..sessions
    /\ ended' = ended \cup {s}
    /\ UNCHANGED <<audioVars, textareaElement, session, sessions,
                   textinputReady, textinputXY, activeElement, textareaPos>>

\* trySend (lines 179-204), called by the listeners of compositionend,
\* input and change (lines 64-67, 92-113) while the textarea has the focus.
trySend(committed) ==
    /\ textareaElement
    /\ activeElement
    /\ IF session # nilSession /\ committed
       THEN /\ ended' = endSession(session, ended)
            /\ session' = nilSession
       ELSE UNCHANGED <<session, ended>>
    /\ UNCHANGED <<audioVars, textareaElement, sessions, textinputReady,
                   textinputXY, activeElement, textareaPos>>

\* The textarea loses the focus and the focusout listener runs (lines 68-75).
FocusOut ==
    /\ textareaElement
    /\ activeElement
    /\ activeElement' = FALSE
    /\ ended' = endSession(session, ended)
    /\ session' = nilSession
    /\ UNCHANGED <<audioVars, textareaElement, sessions, textinputReady,
                   textinputXY, textareaPos>>

\* The browser gives the focus to the textarea of line 114 (keyboard
\* navigation); no listener of the program runs.
FocusIn ==
    /\ textareaElement
    /\ ~activeElement
    /\ activeElement' = TRUE
    /\ UNCHANGED <<audioVars, textareaElement, session, sessions, ended,
                   textinputReady, textinputXY, textareaPos>>

\* The click / touchstart handler (lines 120-135).
UserInteraction ==
    /\ textareaElement
    /\ IF textinputXY = undefined
       THEN UNCHANGED <<activeElement, textareaPos, textinputXY,
                        textinputReady>>
       ELSE /\ activeElement' = TRUE
            /\ textareaPos' = textinputXY
            /\ textinputXY' = undefined
            /\ textinputReady' = TRUE
    /\ UNCHANGED <<audioVars, textareaElement, session, sessions, ended>>

\* theTextInput on its own: the playback engine is idle, and init() has or
\* has not found a document (lines 29-34).
TextSpecInit ==
    /\ state = playerPaused
    /\ buf = << >>
    /\ err = nil
    /\ volume = 2
    /\ hasLoop = FALSE
    /\ players = {}
    /\ locked = FALSE
    /\ bitDepthInBytes = 2
    /\ srcLen = 0
    /\ srcKind = EOF
    /\ srcPos = 0
    /\ plays = EmptyBag
    /\ loopPc = "none"
    /\ loopData = << >>
    /\ loopErr = nil
    /\ closes = EmptyBag
    /\ closeFirst = none
    /\ closeLast = none
    /\ resetDone = FALSE
    /\ mixPc = "idle"
    /\ mixN = 0
    /\ mixPlayers = {}
    /\ buf32 = << >>
    /\ mixReq = 0
    /\ mixWritten = 0
    /\ cm = none
    /\ textareaElement \in BOOLEAN
    /\ TextInit

TextNext ==
    \/ \E xy \in Coords : Start(xy)
    \/ \E s \in 1..MaxSessions : CallerEnd(s)
    \/ \E committed \in BOOLEAN : trySend(committed)
    \/ FocusOut
    \/ FocusIn
    \/ UserInteraction

TextSpec == TextSpecInit /\ [][TextNext]_vars

\* ---------------------------------------------------------------- claims
NothingInFlight ==
    /\ plays = EmptyBag
    /\ closes = EmptyBag
    /\ loopPc \notin {"seterr", "e_remove", "e_relock"}

\* C1: in every reachable state the number of buffered bytes is at most
\* maxBufferSize (and at least 0).
C1_BufferWithinMax == 0 <= Len(buf) /\ Len(buf) <= maxBufferSize

\* C2: once the state is Closed no step of any operation changes it.
C2_ClosedIsSticky == [][state = playerClosed => state' = playerClosed]_vars

\* C2 witness: Close ran while a goroutine of Play was between its unlock
\* and its re-lock, and the state is Closed.
C2_Witness ==
    /\ state = playerClosed
    /\ closeFirst # none
    /\ PlaysAt("relock")

\* C3: every Close() leaves the state Closed and returns what the first
\* Close() returned.
C3_CloseIdempotent ==
    closeFirst # none => (state = playerClosed /\ closeLast = closeFirst)

\* C4: a Close() called after an error was recorded returns that error.
C4_CloseReturnsRecordedError ==
    [][\A c \in CloseLocals :
        (CloseRelock(c) /\ c.errAtStart # nil) => closeLast' = c.errAtStart]_vars

\* C5: whenever the lock is free and an error is recorded, the state is
\* Closed.
C5_ErrorForcesClosed ==
    (~locked /\ err # nil) => state = playerClosed

\* C6: when playImpl, begun on a Paused player with an empty buffer and no
\* error, has filled the buffer and sets the state to Play, the buffer holds
\* maxBufferSize bytes if the source had that many, else all of the source.
C6_PlayFillsToMax ==
    [][\A g \in PlayLocals :
        (PlayReadReturn(g) /\ g.avail >= 0 /\ state' = playerPlay)
            => Len(buf') = Min(maxBufferSize, g.avail)]_vars

\* C7: after Reset() returned, while no Play() or Close() began and no error
\* is recorded, the state is Paused and the buffer is empty.
C7_ResetHolds ==
    (resetDone /\ ~locked /\ err = nil)
        => (state = playerPaused /\ Len(buf) = 0)

\* C8: whenever the lock is free and the state is Closed the buffer is empty.
C8_ClosedBufferEmpty ==
    (~locked /\ state = playerClosed) => Len(buf) = 0

\* C9: when the player is Closed and no Play(), Close() or error path is in
\* flight, the player is not in the registry.
C9_ClosedNotRegistered ==
    (state = playerClosed /\ NothingInFlight) => thePlayer \notin players

\* C10: a Playing player whose source is at its end (io.EOF) with an empty
\* buffer is eventually not Playing any more (Paused by loop, or paused or
\* closed by a caller meanwhile), and is Paused without an error recorded;
\* for every source length and bit depth of Init, under Fairness.
C10_EndOfStreamPauses ==
    (state = playerPlay /\ srcKind = EOF /\ srcPos = srcLen /\ Len(buf) = 0)
        ~> (state # playerPlay /\ (state = playerPaused => err = nil))

\* C11: when the callback returns, the bytes its sub-chunk iterations passed
\* to pa_stream_write add up to requestedBytes.
C11_WritesSumToRequested ==
    [][(MixWrite /\ mixPc' = "idle")
        => mixWritten + bytesToFill = mixReq]_vars

\* C12: addBuffer on a player that is Paused or Closed returns 0 and leaves
\* the player's buffer, state and error and the destination as they were.
C12_NotPlayingConsumesNothing ==
    [][(MixAddBuffer /\ state \in {playerPaused, playerClosed})
        => /\ addBuffer(state, buf, bitDepthInBytes, volume, buf32).n = 0
           /\ buf' = buf
           /\ state' = state
           /\ err' = err
           /\ buf32' = buf32]_vars

\* C12 witness: addBuffer has run on a Paused player that had a whole sample
\* buffered and room in the destination.
C12_Witness ==
    /\ mixPc = "write"
    /\ state = playerPaused
    /\ Len(buf) >= bitDepthInBytes
    /\ Len(buf32) > 0

\* C13: Play() on a player that is Playing or Closed, or that has a recorded
\* error, reads nothing from the source and leaves the state, the buffer, the
\* error, the registry and hasLoop as they were.
C13_PlayIsNoOp ==
    [][(PlayStart /\ (state \in {playerPlay, playerClosed} \/ err # nil))
        => UNCHANGED <<state, buf, err, players, hasLoop, srcPos, plays,
                       locked>>]_vars

\* C13 witness: a Playing, registered player with bytes buffered and its
\* loop started, on which Play() can be called; Play() leaves this state as
\* it is, so it is also the state after that call.
C13_Witness ==
    /\ state = playerPlay
    /\ ~locked
    /\ BagCardinality(plays) < NumPlayGoroutines
    /\ ~resetDone
    /\ Len(buf) > 0
    /\ thePlayer \in players
    /\ hasLoop
    /\ srcPos < srcLen

IsPrefix(a, b) == Len(a) <= Len(b) /\ SubSeq(b, 1, Len(a)) = a

\* C14: Pause() makes a Playing player Paused and leaves any other state as
\* it is; it leaves the buffer, the volume, the error and the registry as
\* they were; and while the player is Paused every step other than Reset()
\* and a close keeps the buffered bytes at the front of the buffer, Play()'s
\* refill included, so that they are the first bytes mixed afterwards.
C14_PauseKeepsBuffer ==
    [][/\ Pause =>
            /\ state' = (IF state = playerPlay THEN playerPaused ELSE state)
            /\ UNCHANGED <<buf, volume, err, players>>
       /\ (state = playerPaused /\ state' # playerClosed /\ ~Reset)
            => IsPrefix(buf, buf')]_vars

\* C14 witness: a Paused player without error, with bytes buffered, whose
\* loop never ran: the bytes are those of a completed fill by Play(), which
\* made the player Playing, and Pause() kept them.
C14_Witness ==
    /\ state = playerPaused
    /\ Len(buf) > 0
    /\ err = nil
    /\ ~hasLoop
    /\ ~locked

\* C15: the fill loop does not spin: in no behaviour does the loop go on
\* reading the source for ever once the state and the buffer have stopped
\* changing.
C15_LoopNeverSpins ==
    <>[][state' = state /\ buf' = buf]_vars => <>[][~LoopReadReturn]_vars

\* C16: once the player is Closed and its loop has been started, the loop
\* eventually returns, wherever it was (every source read returning).
C16_CloseEndsLoop ==
    (state = playerClosed /\ hasLoop) ~> (loopPc = "done")

\* C16 witness: Close() has returned on a player whose loop had been started,
\* and the loop has returned.
C16_Witness ==
    /\ state = playerClosed
    /\ closeFirst # none
    /\ hasLoop
    /\ loopPc = "done"

\* C17: the callback is never at its call of addBuffer while a goroutine
\* holds the player's lock across a read of the source.
C17_MixNeverWaitsForRead ==
    ~(mixPc = "add" /\ locked /\ PlaysAt("reading"))

\* C18: addBuffer on a Playing player with buffer b, bit depth d and a
\* destination of c samples returns n = min(len(b) div d, c), removes the
\* first n*d bytes of b, adds sample_i * volume (sample_i being the value the
\* conversion yields for the i-th sample) to the first n samples of the
\* destination on top of what is there, and leaves the others as they were.
C18_AddBufferConsumesAndAdds ==
    [][(MixAddBuffer /\ state = playerPlay) =>
        LET d == bitDepthInBytes
            c == Len(buf32)
            n == IF Len(buf) \div d < c THEN Len(buf) \div d ELSE c
        IN /\ addBuffer(state, buf, d, volume, buf32).n = n
           /\ buf' = SubSeq(buf, n * d + 1, Len(buf))
           /\ Len(buf32') = c
           /\ \A i \in 1..c :
                buf32'[i] = IF i <= n
                            THEN buf32[i] + sampleOf(buf, i, d) * volume
                            ELSE buf32[i]]_vars

\* A Playing player has been mixed into a destination that held a value other
\* than zero, with bytes left over in its buffer.
C18_Witness ==
    /\ mixPc = "write" /\ state = playerPlay /\ bitDepthInBytes = 2
    /\ Len(buf) = 1 /\ Len(buf32) = MaxDstLen
    /\ buf32[1] = 32767 * volume + 7

\* The i-th sample of b as the signed number it encodes, over 2^15: an 8-bit
\* sample is the byte less 128 (over 2^7), a 16-bit sample the little-endian
\* signed pair.
SignedSample(b, i, d) ==
    IF d = 1 THEN (b[i] - 128) * 256
    ELSE LET u == b[2 * i - 1] + 256 * b[2 * i]
         IN IF u >= 32768 THEN u - 65536 ELSE u

\* C19: every sample addBuffer converts lies in [-1.0, 1.0) before the volume
\* is applied and is the signed value of its bytes: the signed 16-bit value
\* over 2^15, or (byte - 128) over 2^7, so that byte 0 gives -1.0, byte 128
\* gives 0 and byte 255 gives 127/128.
C19_SampleIsSignedAndInRange ==
    [][(MixAddBuffer /\ state = playerPlay) =>
        \A i \in 1..addBufferN(buf, bitDepthInBytes, buf32) :
            /\ sampleOf(buf, i, bitDepthInBytes) >= -32768
            /\ sampleOf(buf, i, bitDepthInBytes) < 32768
            /\ sampleOf(buf, i, bitDepthInBytes)
                 = SignedSample(buf, i, bitDepthInBytes)]_vars

\* C20: at most one read of the source is in progress at any time: loop is
\* never inside its p.src.Read while a goroutine of Play is inside the
\* p.src.Read of the initial fill.
C20_OneReadAtATime ==
    ~(loopPc = "read" /\ PlaysAt("reading"))

\* The goroutines of Play at one of the positions pcs, and the callers of
\* Close at one of pcs, counted with their multiplicity.
PlaysCount(pcs) ==
    BagCardinality([g \in {h \in BagToSet(plays) : h.pc \in pcs}
                       |-> CopiesIn(g, plays)])
ClosesCount(pcs) ==
    BagCardinality([c \in {d \in BagToSet(closes) : d.pc \in pcs}
                       |-> CopiesIn(c, closes)])

\* Who holds which lock: p.cond.L is held across steps by exactly one
\* goroutine, inside the Read of playImpl; c.m is held by exactly one
\* thread, inside addPlayer, removePlayer or the snapshot, which is then not
\* inside that Read.
LocksHeldApart ==
    /\ locked <=> PlaysCount({"reading"}) = 1
    /\ ~locked => PlaysCount({"reading"}) = 0
    /\ cm \in {none, "play", "close", "loop", "mix"}
    /\ PlaysCount({"adding", "e_removing"}) = (IF cm = "play" THEN 1 ELSE 0)
    /\ ClosesCount({"removing"}) = (IF cm = "close" THEN 1 ELSE 0)
    /\ (loopPc = "e_removing") <=> (cm = "loop")
    /\ (mixPc = "snapping") <=> (cm = "mix")

\* Some thread is inside an operation (loop parked in cond.Wait is not).
InFlight ==
    \/ plays # EmptyBag
    \/ closes # EmptyBag
    \/ loopPc \in {"wait", "read", "got", "seterr", "e_remove", "e_removing",
                   "e_relock"}
    \/ mixPc # "idle"

\* The steps of the threads that are inside an operation.
RunningStep ==
    \/ \E g \in BagToSet(plays) :
          \/ PlayReadReturn(g) \/ PlayLockRegistry(g) \/ PlayAddPlayerLocked(g)
          \/ PlayRelock(g) \/ PlayErrLockRegistry(g)
          \/ PlayErrRemoveLocked(g) \/ PlayErrRelock(g)
    \/ \E c \in BagToSet(closes) :
          CloseLockRegistry(c) \/ CloseRemoveLocked(c) \/ CloseRelock(c)
    \/ LoopWait \/ LoopReadReturn \/ LoopAppend \/ LoopSetError
    \/ LoopErrLockRegistry \/ LoopErrRemoveLocked \/ LoopErrRelock
    \/ MixLockRegistry \/ MixSnapshotLocked \/ MixAddBuffer \/ MixWrite

\* The step by which the holder of p.cond.L, and of c.m, gives it up.
HolderOfLockStep == \E g \in BagToSet(plays) : PlayReadReturn(g)
HolderOfRegistryStep ==
    \/ \E g \in BagToSet(plays) :
          PlayAddPlayerLocked(g) \/ PlayErrRemoveLocked(g)
    \/ \E c \in BagToSet(closes) : CloseRemoveLocked(c)
    \/ LoopErrRemoveLocked
    \/ MixSnapshotLocked

\* C21: no thread holds p.cond.L and c.m at the same time (each is given up
\* before the other is taken, by Play, Close, the error path and the
\* callback), and no interleaving reaches a deadlock: the holder of either
\* lock can always take the step that gives it up, and whenever a thread is
\* inside an operation some thread can take a step.
C21_NoLockHeldWithTheOther ==
    /\ [](/\ LocksHeldApart
          /\ locked => ENABLED HolderOfLockStep
          /\ cm # none => ENABLED HolderOfRegistryStep
          /\ InFlight => ENABLED RunningStep)
    /\ [][/\ MixAddBuffer => cm # "mix"
          /\ (LoopWait \/ LoopAppend \/ LoopSetError \/ LoopErrRelock)
                => cm # "loop"
          /\ (MixLockRegistry \/ LoopErrLockRegistry) => ~locked \/ PlaysAt("reading")]_vars

\* C21 witness: both locks are held, by different threads, while the
\* callback waits for c.m and loop waits for p.cond.L.
C21_Witness ==
    /\ locked /\ PlaysAt("reading")
    /\ cm = "close"
    /\ mixPc = "snap"
    /\ loopPc = "wait"

\* The sessions made so far on which end() has not been called.
LiveSessions == {s \in 1..sessions : s \notin ended}

\* C22: the text input holds at most one live session, and whenever the
\* current session is replaced or cleared (by Start, by the focusout
\* listener or by a committed trySend) end() has been called on it.
C22_NoSessionDroppedUnended ==
    /\ [](Cardinality(LiveSessions) <= 1)
    /\ [][(session # nilSession /\ session' # session)
            => session \in ended']_vars

====
